---- MODULE Spec2Model ----
(***************************************************************************)
(* A model of mcp-server/server.py of twincat-mcp: the tool dispatcher     *)
(* call_tool, the process bridge run_tc_automation and the executable      *)
(* locator find_tc_automation_exe, together with the external process and  *)
(* the clock they wait on.                                                 *)
(*                                                                         *)
(* Representation.  A Python str is a sequence of atoms [t, v]; the empty  *)
(* string is << >> and concatenation is \o.  A dict is a function whose    *)
(* domain is the set of keys that are present.  A list is a sequence.      *)
(***************************************************************************)
EXTENDS Integers, Sequences, FiniteSets, TLC

VARIABLES
    fs,         \* the candidate paths that exist on the filesystem
    request,    \* request[c]: the (name, arguments) pair call c carries
    script,     \* script[c]: what the external process does when run for c
    pc,         \* pc[c]: where call c is
    argv,       \* argv[c]: the args list call_tool built
    spawned,    \* spawned[c]: cmd and cwd given to subprocess.run
    proc,       \* proc[c]: state of c's subprocess
    out,        \* out[c]: stdout captured so far
    err,        \* err[c]: stderr captured so far
    elapsed,    \* elapsed[c]: seconds since c's subprocess was spawned
    bridge,     \* bridge[c]: how run_tc_automation ended for c
    text,       \* text[c]: the text call_tool returned
    abandoned,  \* abandoned[c]: the caller gave up on c
    blocked     \* the call whose subprocess.run holds the event loop, or 0

vars == <<fs, request, script, pc, argv, spawned, proc, out, err, elapsed,
          bridge, text, abandoned, blocked>>

-----------------------------------------------------------------------------
(* Bounds *)

NumCalls == 2
TickSeconds == 150

Calls == 1..NumCalls

-----------------------------------------------------------------------------
(* Strings, dicts *)

Lit(x) == [t |-> "lit", v |-> x]
S(x) == <<Lit(x)>>

\* Python None, where a str is expected
None == <<[t |-> "None", v |-> "None"]>>

\* truthiness of a str-or-None
Truthy(x) == x # None /\ x # << >>

EmptyDict == [k \in {} |-> 0]

\* d.get(k, default)
Get(d, k, default) == IF k \in DOMAIN d THEN d[k] ELSE default

\* truthiness of d.get(k) for a boolean entry (absent gives None, falsy)
GetB(d, k) == Get(d, k, FALSE)

RECURSIVE Flatten(_)
Flatten(ss) == IF ss = << >> THEN << >> ELSE Head(ss) \o Flatten(Tail(ss))

\* sep.join(items)
RECURSIVE Join(_, _)
Join(sep, items) ==
    IF Len(items) = 0 THEN << >>
    ELSE IF Len(items) = 1 THEN items[1]
    ELSE items[1] \o sep \o Join(sep, Tail(items))

\* whether needle occurs in hay (Python's `needle in hay`)
Contains(hay, needle) ==
    \E i \in 0..(Len(hay) - Len(needle)) :
        \A j \in 1..Len(needle) : hay[i + j] = needle[j]

-----------------------------------------------------------------------------
(* ExecutableLocator *)

TC_AUTOMATION_PATHS == <<
    "TcAutomation/bin/Release/TcAutomation.exe",
    "TcAutomation/bin/Debug/TcAutomation.exe",
    "TcAutomation/bin/Release/net8.0-windows/TcAutomation.exe",
    "TcAutomation/publish/TcAutomation.exe" >>

\* Path.parent of each candidate
Parent(p) ==
    CASE p = "TcAutomation/bin/Release/TcAutomation.exe" -> "TcAutomation/bin/Release"
      [] p = "TcAutomation/bin/Debug/TcAutomation.exe" -> "TcAutomation/bin/Debug"
      [] p = "TcAutomation/bin/Release/net8.0-windows/TcAutomation.exe" ->
             "TcAutomation/bin/Release/net8.0-windows"
      [] p = "TcAutomation/publish/TcAutomation.exe" -> "TcAutomation/publish"

\* the FileNotFoundError message
NotFoundMessage ==
    S("TcAutomation.exe not found. Searched paths:\n")
    \o Join(S("\n"), [i \in 1..Len(TC_AUTOMATION_PATHS) |->
                         S("  - ") \o S(TC_AUTOMATION_PATHS[i])])
    \o S("\n\nPlease build the TcAutomation project first:\n")
    \o S("  .\\scripts\\build.ps1")

\* the for loop of find_tc_automation_exe, from index i on
RECURSIVE ScanLast(_, _)
ScanLast(exists, i) ==
    IF i < 1 THEN [raised |-> TRUE, path |-> "", message |-> NotFoundMessage]
    ELSE IF TC_AUTOMATION_PATHS[i] \in exists
         THEN [raised |-> FALSE, path |-> TC_AUTOMATION_PATHS[i], message |-> << >>]
         ELSE ScanLast(exists, i - 1)

RECURSIVE Scan(_, _)
Scan(exists, i) ==
    IF i > Len(TC_AUTOMATION_PATHS)
    THEN [raised |-> TRUE, path |-> "", message |-> NotFoundMessage]
    ELSE IF TC_AUTOMATION_PATHS[i] \in exists
         THEN [raised |-> FALSE, path |-> TC_AUTOMATION_PATHS[i], message |-> << >>]
         ELSE Scan(exists, i + 1)

\* mutant: probes the candidates from the last to the first
find_tc_automation_exe_reversed(exists) == ScanLast(exists, Len(TC_AUTOMATION_PATHS))

find_tc_automation_exe(exists) == Scan(exists, 1)

-----------------------------------------------------------------------------
(* ProcessBridge: what run_tc_automation returns *)

Ws == [t |-> "ws", v |-> " "]       \* space, tab, CR, LF
Ff == [t |-> "ff", v |-> "\\f"]     \* whitespace to str.strip, not to JSON
Json(d) == [t |-> "json", v |-> d]  \* the serialisation of document d

RECURSIVE LStrip(_, _)
LStrip(s, kinds) ==
    IF s # << >> /\ Head(s).t \in kinds THEN LStrip(Tail(s), kinds) ELSE s

RECURSIVE RStrip(_, _)
RStrip(s, kinds) ==
    IF s # << >> /\ s[Len(s)].t \in kinds
    THEN RStrip(SubSeq(s, 1, Len(s) - 1), kinds) ELSE s

\* str.strip()
strip(s) == RStrip(LStrip(s, {"ws", "ff"}), {"ws", "ff"})

\* json.loads(s): one document surrounded by JSON whitespace only
json_loads(s) ==
    LET core == RStrip(LStrip(s, {"ws"}), {"ws"})
    IN  IF Len(core) = 1 /\ core[1].t = "json"
        THEN [ok |-> TRUE, doc |-> core[1].v]
        ELSE [ok |-> FALSE, doc |-> EmptyDict]

TimeoutMessage == S("Command timed out after 5 minutes")
NoOutputMessage == S("No output from TcAutomation.exe")

\* lines 71-85, given the CompletedProcess
\* mutant: a non-zero exit code is reported as a failure
completed_exit_code(result) ==
    IF result.returncode # 0
    THEN [success |-> FALSE, errorMessage |-> result.stderr]
    ELSE IF strip(result.stdout) # << >>
    THEN IF json_loads(result.stdout).ok
         THEN json_loads(result.stdout).doc
         ELSE [success |-> FALSE,
               errorMessage |-> S("Invalid JSON output: ") \o result.stdout,
               stderr |-> result.stderr]
    ELSE [success |-> FALSE,
          errorMessage |-> IF result.stderr # << >> THEN result.stderr
                           ELSE NoOutputMessage]

completed(result) ==
    IF strip(result.stdout) # << >>
    THEN IF json_loads(result.stdout).ok
         THEN json_loads(result.stdout).doc
         ELSE [success |-> FALSE,
               errorMessage |-> S("Invalid JSON output: ") \o result.stdout,
               stderr |-> result.stderr]
    ELSE [success |-> FALSE,
          errorMessage |-> IF result.stderr # << >> THEN result.stderr
                           ELSE NoOutputMessage]

\* lines 87-91, given what was captured when the timeout expired
\* mutant: the partial output is classified as if the process had ended
timed_out_parses(stdout, stderr) ==
    completed([returncode |-> 0, stdout |-> stdout, stderr |-> stderr])

timed_out(stdout, stderr) ==
    [success |-> FALSE, errorMessage |-> TimeoutMessage]

\* lines 92-96, given str(e)
failed(e) == [success |-> FALSE, errorMessage |-> e]

-----------------------------------------------------------------------------
(* ArgumentBuilder: the args list each branch of call_tool builds *)

Flag(f) == <<S(f)>>
Pair(f, value) == <<S(f), value>>

build_args(arguments) ==
    LET solution_path == Get(arguments, "solutionPath", << >>)
        clean == Get(arguments, "clean", TRUE)
        tc_version == Get(arguments, "tcVersion", None)
    IN  Pair("--solution", solution_path)
        \o (IF clean THEN Flag("--clean") ELSE << >>)
        \o (IF Truthy(tc_version) THEN Pair("--tcversion", tc_version) ELSE << >>)

get_info_args(arguments) ==
    Pair("--solution", Get(arguments, "solutionPath", << >>))

clean_args(arguments) ==
    LET solution_path == Get(arguments, "solutionPath", << >>)
        tc_version == Get(arguments, "tcVersion", None)
    IN  Pair("--solution", solution_path)
        \o (IF Truthy(tc_version) THEN Pair("--tcversion", tc_version) ELSE << >>)

set_target_args(arguments) ==
    LET solution_path == Get(arguments, "solutionPath", << >>)
        ams_net_id == Get(arguments, "amsNetId", << >>)
        tc_version == Get(arguments, "tcVersion", None)
    IN  Pair("--solution", solution_path)
        \o Pair("--amsnetid", ams_net_id)
        \o (IF Truthy(tc_version) THEN Pair("--tcversion", tc_version) ELSE << >>)

\* twincat_activate and twincat_restart build the same list
activate_args(arguments) ==
    LET solution_path == Get(arguments, "solutionPath", << >>)
        ams_net_id == Get(arguments, "amsNetId", None)
        tc_version == Get(arguments, "tcVersion", None)
    IN  Pair("--solution", solution_path)
        \o (IF Truthy(ams_net_id) THEN Pair("--amsnetid", ams_net_id) ELSE << >>)
        \o (IF Truthy(tc_version) THEN Pair("--tcversion", tc_version) ELSE << >>)

\* mutant: --tcversion is appended before --plc
deploy_args_reordered(arguments) ==
    LET solution_path == Get(arguments, "solutionPath", << >>)
        ams_net_id == Get(arguments, "amsNetId", << >>)
        plc_name == Get(arguments, "plcName", None)
        tc_version == Get(arguments, "tcVersion", None)
        skip_build == Get(arguments, "skipBuild", FALSE)
        dry_run == Get(arguments, "dryRun", FALSE)
    IN  Pair("--solution", solution_path)
        \o Pair("--amsnetid", ams_net_id)
        \o (IF Truthy(tc_version) THEN Pair("--tcversion", tc_version) ELSE << >>)
        \o (IF Truthy(plc_name) THEN Pair("--plc", plc_name) ELSE << >>)
        \o (IF skip_build THEN Flag("--skip-build") ELSE << >>)
        \o (IF dry_run THEN Flag("--dry-run") ELSE << >>)

deploy_args(arguments) ==
    LET solution_path == Get(arguments, "solutionPath", << >>)
        ams_net_id == Get(arguments, "amsNetId", << >>)
        plc_name == Get(arguments, "plcName", None)
        tc_version == Get(arguments, "tcVersion", None)
        skip_build == Get(arguments, "skipBuild", FALSE)
        dry_run == Get(arguments, "dryRun", FALSE)
    IN  Pair("--solution", solution_path)
        \o Pair("--amsnetid", ams_net_id)
        \o (IF Truthy(plc_name) THEN Pair("--plc", plc_name) ELSE << >>)
        \o (IF Truthy(tc_version) THEN Pair("--tcversion", tc_version) ELSE << >>)
        \o (IF skip_build THEN Flag("--skip-build") ELSE << >>)
        \o (IF dry_run THEN Flag("--dry-run") ELSE << >>)

ToolNames == {"twincat_build", "twincat_get_info", "twincat_clean",
              "twincat_set_target", "twincat_activate", "twincat_restart",
              "twincat_deploy"}

\* the command word each branch passes to run_tc_automation
Command(name) ==
    CASE name = "twincat_build" -> "build"
      [] name = "twincat_get_info" -> "info"
      [] name = "twincat_clean" -> "clean"
      [] name = "twincat_set_target" -> "set-target"
      [] name = "twincat_activate" -> "activate"
      [] name = "twincat_restart" -> "restart"
      [] name = "twincat_deploy" -> "deploy"

Args(name, arguments) ==
    CASE name = "twincat_build" -> build_args(arguments)
      [] name = "twincat_get_info" -> get_info_args(arguments)
      [] name = "twincat_clean" -> clean_args(arguments)
      [] name = "twincat_set_target" -> set_target_args(arguments)
      [] name = "twincat_activate" -> activate_args(arguments)
      [] name = "twincat_restart" -> activate_args(arguments)
      [] name = "twincat_deploy" -> deploy_args(arguments)

\* inputSchema["required"] of each Tool of list_tools
Required(name) ==
    IF name \in {"twincat_set_target", "twincat_deploy"}
    THEN {"solutionPath", "amsNetId"}
    ELSE {"solutionPath"}

-----------------------------------------------------------------------------
(* ResultRenderer: the text each branch of call_tool formats *)

SuccessMarker == S("[check mark] ")
FailureMarker == S("[cross mark] ")
DryRunNote == S(" (dry run)")
Unknown == S("Unknown")
NL == S("\n")

\* the "  - file:line: description" lines of a list of errors or warnings
IssueLines(items, fileKey) ==
    Flatten([i \in 1..Len(items) |->
        S("  - ") \o Get(items[i], fileKey, << >>) \o S(":")
        \o Get(items[i], "line", << >>) \o S(": ")
        \o Get(items[i], "description", << >>) \o NL])

WarningsBlock(result) ==
    IF Len(Get(result, "warnings", << >>)) > 0
    THEN S("\n[warning sign] Warnings:\n") \o IssueLines(result["warnings"], "fileName")
    ELSE << >>

render_build(result) ==
    IF GetB(result, "success")
    THEN SuccessMarker \o Get(result, "summary", S("Build succeeded")) \o NL
         \o WarningsBlock(result)
    ELSE FailureMarker \o S("Build failed\n")
         \o (IF Truthy(Get(result, "errorMessage", None))
             THEN S("\nError: ") \o result["errorMessage"] \o NL ELSE << >>)
         \o (IF Len(Get(result, "errors", << >>)) > 0
             THEN S("\n[red circle] Errors:\n") \o IssueLines(result["errors"], "fileName")
             ELSE << >>)
         \o WarningsBlock(result)

render_get_info(result) ==
    IF Truthy(Get(result, "errorMessage", None))
    THEN FailureMarker \o S("Error: ") \o result["errorMessage"]
    ELSE S("[clipboard] TwinCAT Project Info\nSolution: ")
         \o Get(result, "solutionPath", Unknown)
         \o S("\nTwinCAT Version: ") \o Get(result, "tcVersion", Unknown) \o S(" ")
         \o (IF GetB(result, "tcVersionPinned") THEN S("(pinned)") ELSE << >>)
         \o S("\nVisual Studio Version: ") \o Get(result, "visualStudioVersion", Unknown)
         \o S("\nTarget Platform: ") \o Get(result, "targetPlatform", Unknown)
         \o S("\n\nPLC Projects:\n")
         \o (LET plcs == Get(result, "plcProjects", << >>)
             IN  IF Len(plcs) > 0
                 THEN Flatten([i \in 1..Len(plcs) |->
                          S("  - ") \o Get(plcs[i], "name", Unknown)
                          \o S(" (AMS Port: ") \o Get(plcs[i], "amsPort", Unknown)
                          \o S(")\n")])
                 ELSE S("  (none found)\n"))

render_clean(result) ==
    IF GetB(result, "success")
    THEN SuccessMarker \o Get(result, "message", S("Solution cleaned successfully"))
    ELSE FailureMarker \o S("Clean failed: ") \o Get(result, "error", S("Unknown error"))

render_set_target(arguments, result) ==
    IF GetB(result, "success")
    THEN SuccessMarker \o Get(result, "message", S("Target set successfully")) \o NL
         \o S("Previous target: ") \o Get(result, "previousTarget", Unknown) \o NL
         \o S("New target: ")
         \o Get(result, "newTarget", Get(arguments, "amsNetId", << >>))
    ELSE FailureMarker \o S("Set target failed: ")
         \o Get(result, "error", S("Unknown error"))

render_activate(result) ==
    IF GetB(result, "success")
    THEN SuccessMarker \o Get(result, "message", S("Configuration activated")) \o NL
         \o S("Target: ") \o Get(result, "targetNetId", Unknown)
    ELSE FailureMarker \o S("Activation failed: ")
         \o Get(result, "error", S("Unknown error"))

render_restart(result) ==
    IF GetB(result, "success")
    THEN SuccessMarker \o Get(result, "message", S("TwinCAT restarted")) \o NL
         \o S("Target: ") \o Get(result, "targetNetId", Unknown)
    ELSE FailureMarker \o S("Restart failed: ")
         \o Get(result, "error", S("Unknown error"))

\* one line of the deployment step list
\* mutant: the note is never appended
StepLine_no_note(step) ==
    S("  ") \o Get(step, "step", S("?")) \o S(". ")
    \o Get(step, "action", Unknown) \o NL

StepLine(step) ==
    S("  ") \o Get(step, "step", S("?")) \o S(". ")
    \o Get(step, "action", Unknown)
    \o (IF GetB(step, "dryRun") THEN DryRunNote ELSE << >>) \o NL

render_deploy(arguments, result) ==
    LET ams_net_id == Get(arguments, "amsNetId", << >>)
        dry_run == Get(arguments, "dryRun", FALSE)
    IN  IF GetB(result, "success")
        THEN (IF dry_run THEN S("[magnifier] DRY RUN: ") ELSE << >>)
             \o SuccessMarker \o Get(result, "message", S("Deployment successful"))
             \o S("\n\n")
             \o S("Target: ") \o Get(result, "targetNetId", ams_net_id) \o NL
             \o S("Deployed PLCs: ")
             \o Join(S(", "), Get(result, "deployedPlcs", << >>)) \o S("\n\n")
             \o (IF Len(Get(result, "steps", << >>)) > 0
                 THEN S("[clipboard] Deployment Steps:\n")
                      \o Flatten([i \in 1..Len(result["steps"]) |->
                                     StepLine(result["steps"][i])])
                 ELSE << >>)
        ELSE FailureMarker \o S("Deployment failed: ")
             \o Get(result, "error", S("Unknown error")) \o NL
             \o (IF Len(Get(result, "errors", << >>)) > 0
                 THEN S("\n[red circle] Build Errors:\n")
                      \o IssueLines(result["errors"], "file")
                 ELSE << >>)

Render(name, arguments, result) ==
    CASE name = "twincat_build" -> render_build(result)
      [] name = "twincat_get_info" -> render_get_info(result)
      [] name = "twincat_clean" -> render_clean(result)
      [] name = "twincat_set_target" -> render_set_target(arguments, result)
      [] name = "twincat_activate" -> render_activate(result)
      [] name = "twincat_restart" -> render_restart(result)
      [] name = "twincat_deploy" -> render_deploy(arguments, result)

UnknownTool(name) == S("Unknown tool: ") \o S(name)

-----------------------------------------------------------------------------
(* The calls *)

TIMEOUT == 300

Min(a, b) == IF a < b THEN a ELSE b

NotCalled == [kind |-> "none", env |-> EmptyDict, exc |-> << >>]
Returned(envelope) == [kind |-> "returned", env |-> envelope, exc |-> << >>]
Raised(message) == [kind |-> "raised", env |-> EmptyDict, exc |-> message]

NotSpawned == [cmd |-> << >>, cwd |-> ""]

\* str(e) of the exception subprocess.run raises when the spawn fails
SpawnError == S("[WinError 5] Access is denied")

\* the transport hands request c to the server
Deliver(c) ==
    /\ pc[c] = "idle"
    /\ pc' = [pc EXCEPT ![c] = "delivered"]
    /\ UNCHANGED <<fs, request, script, argv, spawned, proc, out, err, elapsed,
                   bridge, text, abandoned, blocked>>

\* call_tool, from its entry to the point where subprocess.run waits for
\* the process, or to its end when no process is waited for.  The handler is
\* a coroutine that never awaits: it runs when no other handler holds the
\* event loop, and it holds the loop until it returns.
call_tool(c) ==
    /\ pc[c] = "delivered"
    /\ blocked = 0
    /\ LET name == request[c].name
           arguments == request[c].arguments
           args == Args(name, arguments)
           exe_path == find_tc_automation_exe(fs)
           cmd == <<S(exe_path.path), S(Command(name))>> \o args
       IN  IF name \notin ToolNames
           THEN /\ text' = [text EXCEPT ![c] = UnknownTool(name)]
                /\ pc' = [pc EXCEPT ![c] = "done"]
                /\ UNCHANGED <<argv, spawned, proc, elapsed, bridge, blocked>>
           ELSE IF exe_path.raised
           THEN /\ argv' = [argv EXCEPT ![c] = args]
                /\ bridge' = [bridge EXCEPT ![c] = Raised(exe_path.message)]
                /\ pc' = [pc EXCEPT ![c] = "raised"]
                /\ UNCHANGED <<spawned, proc, elapsed, text, blocked>>
           ELSE IF ~script[c].spawn
           THEN /\ argv' = [argv EXCEPT ![c] = args]
                /\ spawned' = [spawned EXCEPT
                       ![c] = [cmd |-> cmd, cwd |-> Parent(exe_path.path)]]
                /\ bridge' = [bridge EXCEPT ![c] = Returned(failed(SpawnError))]
                /\ text' = [text EXCEPT
                       ![c] = Render(name, arguments, failed(SpawnError))]
                /\ pc' = [pc EXCEPT ![c] = "done"]
                /\ UNCHANGED <<proc, elapsed, blocked>>
           ELSE /\ argv' = [argv EXCEPT ![c] = args]
                /\ spawned' = [spawned EXCEPT
                       ![c] = [cmd |-> cmd, cwd |-> Parent(exe_path.path)]]
                /\ proc' = [proc EXCEPT ![c] = "running"]
                /\ elapsed' = [elapsed EXCEPT ![c] = 0]
                /\ pc' = [pc EXCEPT ![c] = "running"]
                /\ blocked' = c
                /\ UNCHANGED <<bridge, text>>
    /\ UNCHANGED <<fs, request, script, out, err, abandoned>>

\* the process writes the next piece of its stdout or of its stderr
ProcWrite(c) ==
    /\ proc[c] = "running"
    /\ \/ /\ Len(out[c]) < Len(script[c].stdout)
          /\ out' = [out EXCEPT ![c] = Append(@, script[c].stdout[Len(@) + 1])]
          /\ err' = err
       \/ /\ Len(err[c]) < Len(script[c].stderr)
          /\ err' = [err EXCEPT ![c] = Append(@, script[c].stderr[Len(@) + 1])]
          /\ out' = out
    /\ UNCHANGED <<fs, request, script, pc, argv, spawned, proc, elapsed,
                   bridge, text, abandoned, blocked>>

\* time passes while subprocess.run waits
Tick(c) ==
    /\ proc[c] = "running"
    /\ elapsed[c] < TIMEOUT
    /\ elapsed' = [elapsed EXCEPT ![c] = Min(@ + TickSeconds, TIMEOUT)]
    /\ UNCHANGED <<fs, request, script, pc, argv, spawned, proc, out, err,
                   bridge, text, abandoned, blocked>>

\* the process ends before the timeout: subprocess.run returns, and
\* run_tc_automation and call_tool run to their end
ProcExit(c) ==
    /\ proc[c] = "running"
    /\ elapsed[c] < TIMEOUT
    /\ out[c] = script[c].stdout
    /\ err[c] = script[c].stderr
    /\ LET result == [returncode |-> script[c].returncode,
                      stdout |-> out[c], stderr |-> err[c]]
           envelope == completed(result)
       IN  /\ bridge' = [bridge EXCEPT ![c] = Returned(envelope)]
           /\ text' = [text EXCEPT
                  ![c] = Render(request[c].name, request[c].arguments, envelope)]
    /\ proc' = [proc EXCEPT ![c] = "exited"]
    /\ pc' = [pc EXCEPT ![c] = "done"]
    /\ blocked' = 0
    /\ UNCHANGED <<fs, request, script, argv, spawned, out, err, elapsed,
                   abandoned>>

\* the timeout expires: subprocess.run kills the process and raises
\* TimeoutExpired, and run_tc_automation and call_tool run to their end
Timeout(c) ==
    /\ proc[c] = "running"
    /\ elapsed[c] >= TIMEOUT
    /\ LET envelope == timed_out(out[c], err[c])
       IN  /\ bridge' = [bridge EXCEPT ![c] = Returned(envelope)]
           /\ text' = [text EXCEPT
                  ![c] = Render(request[c].name, request[c].arguments, envelope)]
    /\ proc' = [proc EXCEPT ![c] = "killed"]
    /\ pc' = [pc EXCEPT ![c] = "done"]
    /\ blocked' = 0
    /\ UNCHANGED <<fs, request, script, argv, spawned, out, err, elapsed,
                   abandoned>>

\* the caller gives up on a call whose process is running.  Nothing in
\* call_tool or run_tc_automation observes it: the thread is inside
\* subprocess.run and no cancellation reaches the process.
Abandon(c) ==
    /\ pc[c] = "running"
    /\ ~abandoned[c]
    /\ abandoned' = [abandoned EXCEPT ![c] = TRUE]
    /\ UNCHANGED <<fs, request, script, pc, argv, spawned, proc, out, err,
                   elapsed, bridge, text, blocked>>

Next ==
    \E c \in Calls :
        \/ Deliver(c)
        \/ call_tool(c)
        \/ ProcWrite(c)
        \/ Tick(c)
        \/ ProcExit(c)
        \/ Timeout(c)
        \/ Abandon(c)

-----------------------------------------------------------------------------
(* Workloads: the requests, the process behaviours and the filesystems the
   specifications start from *)

MaxOut == 3

BoolKeys == {"clean", "skipBuild", "dryRun"}

\* inputSchema["properties"] of each Tool of list_tools
Properties(name) ==
    CASE name = "twincat_build" -> {"solutionPath", "clean", "tcVersion"}
      [] name = "twincat_get_info" -> {"solutionPath"}
      [] name = "twincat_clean" -> {"solutionPath", "tcVersion"}
      [] name \in {"twincat_set_target", "twincat_activate", "twincat_restart"} ->
             {"solutionPath", "amsNetId", "tcVersion"}
      [] name = "twincat_deploy" ->
             {"solutionPath", "amsNetId", "plcName", "tcVersion", "skipBuild", "dryRun"}

\* the values an argument takes: both booleans, or the empty and a non-empty string
Values(k) ==
    CASE k \in BoolKeys -> BOOLEAN
      [] k = "solutionPath" -> {<< >>, S("C:\\P\\S.sln")}
      [] k = "amsNetId" -> {<< >>, S("5.22.157.86.1.1")}
      [] k = "tcVersion" -> {<< >>, S("3.1.4026.17")}
      [] k = "plcName" -> {<< >>, S("PLC1")}

\* every dict over some of the keys
RECURSIVE DictsOver(_)
DictsOver(keys) ==
    IF keys = {} THEN {EmptyDict}
    ELSE LET k == CHOOSE x \in keys : TRUE
         IN  {d @@ e : d \in DictsOver(keys \ {k}),
                       e \in {EmptyDict} \cup {k :> v : v \in Values(k)}}

Req(name, arguments) == [name |-> name, arguments |-> arguments]
NoRequest == Req("", EmptyDict)

AllRequests ==
    UNION {{Req(n, a) : a \in DictsOver(Properties(n))} : n \in ToolNames}
    \cup {Req("twincat_unknown", EmptyDict)}

FullArgs == [solutionPath |-> S("C:\\P\\S.sln"), amsNetId |-> S("5.22.157.86.1.1")]

RenderRequests ==
    {Req(n, FullArgs) : n \in ToolNames}
    \cup {Req("twincat_deploy", FullArgs @@ [dryRun |-> b]) : b \in BOOLEAN}

BuildRequest == Req("twincat_build", [solutionPath |-> S("C:\\P\\S.sln"), clean |-> TRUE])

Restrict(f, K) == [k \in K |-> f[k]]

SuccessDoc == [success |-> TRUE, message |-> S("done")]
FailureDoc == [success |-> FALSE, errorMessage |-> S("COM error")]

Step(n, K) == Restrict([step |-> S(n), action |-> S("Activate"), dryRun |-> TRUE], K)
PlainStep(n) == [step |-> S(n), action |-> S("Build"), dryRun |-> FALSE]

StepLists ==
    { << >>,
      <<Step("1", {"step", "action", "dryRun"})>>,
      <<Step("1", {"step", "action"})>>,
      <<PlainStep("1")>>,
      <<Step("1", {"step", "action", "dryRun"}), Step("2", {"action"})>>,
      <<Step("1", {"dryRun"}), Step("2", {"step", "action", "dryRun"})>> }

Issue == [fileName |-> S("MAIN.TcPOU"), file |-> S("MAIN.TcPOU"),
          line |-> S("12"), description |-> S("Identifier not defined")]

\* documents the external program may print
RenderDocs ==
    { Restrict(f, K) :
        f \in [success : BOOLEAN,
               errorMessage : {<< >>, S("COM error")},
               error : {S("Target unreachable")},
               stderr : {S("trace")},
               message : {S("done")},
               steps : StepLists],
        K \in SUBSET {"success", "errorMessage", "error", "stderr", "message", "steps"} }
    \cup
    { Restrict([success |-> b, summary |-> S("1 warning"),
                warnings |-> <<Issue, Restrict(Issue, {"description"})>>,
                errors |-> <<Issue>>,
                targetNetId |-> S("5.22.157.86.1.1"),
                deployedPlcs |-> <<S("PLC1"), S("PLC2")>>,
                plcProjects |-> <<[name |-> S("PLC1"), amsPort |-> S("851")]>>,
                tcVersionPinned |-> TRUE], K) :
        b \in BOOLEAN,
        K \in { {"success", "summary", "warnings"},
                {"success", "errors", "warnings"},
                {"success", "targetNetId", "deployedPlcs"},
                {"plcProjects", "tcVersionPinned"} } }

Script(spawn, stdout, stderr, returncode) ==
    [spawn |-> spawn, stdout |-> stdout, stderr |-> stderr, returncode |-> returncode]
NoScript == Script(FALSE, << >>, << >>, 0)

Prints(d) == Script(TRUE, <<Json(d)>>, << >>, 0)
CannotSpawn == Script(FALSE, << >>, << >>, 0)

SeqsUpTo(A, n) == UNION {[1..k -> A] : k \in 0..n}

\* every stdout of at most MaxOut pieces, with every stderr and exit code
BridgeScripts ==
    { Script(TRUE, o, e, rc) :
        o \in SeqsUpTo({Ws, Ff, Lit("not-json"), Json(SuccessDoc), Json(FailureDoc)}, MaxOut),
        e \in {<< >>, S("stderr text"), <<Ws>>},
        rc \in {0, 1} }
    \cup {CannotSpawn}

RenderScripts ==
    {Prints(d) : d \in RenderDocs}
    \cup { Script(TRUE, S("not-json"), S("stderr text"), 1),
           Script(TRUE, << >>, S("stderr text"), 1),
           Script(TRUE, << >>, << >>, 0),
           CannotSpawn }

AllFileSystems == SUBSET {TC_AUTOMATION_PATHS[i] : i \in 1..Len(TC_AUTOMATION_PATHS)}

\* the state after start-up: n calls will be made
Setup(Requests, Scripts, FileSystems, n) ==
    /\ fs \in FileSystems
    /\ \E r \in [1..n -> Requests] :
           request = [c \in Calls |-> IF c <= n THEN r[c] ELSE NoRequest]
    /\ \E p \in [1..n -> Scripts] :
           script = [c \in Calls |-> IF c <= n THEN p[c] ELSE NoScript]
    /\ pc = [c \in Calls |-> IF c <= n THEN "idle" ELSE "absent"]
    /\ argv = [c \in Calls |-> << >>]
    /\ spawned = [c \in Calls |-> NotSpawned]
    /\ proc = [c \in Calls |-> "none"]
    /\ out = [c \in Calls |-> << >>]
    /\ err = [c \in Calls |-> << >>]
    /\ elapsed = [c \in Calls |-> 0]
    /\ bridge = [c \in Calls |-> NotCalled]
    /\ text = [c \in Calls |-> << >>]
    /\ abandoned = [c \in Calls |-> FALSE]
    /\ blocked = 0

\* concurrent calls, every filesystem
Init == Setup({BuildRequest}, {Prints(SuccessDoc), CannotSpawn}, AllFileSystems, NumCalls)
Spec == Init /\ [][Next]_vars

\* one call, every process behaviour
InitBridge ==
    Setup({BuildRequest}, BridgeScripts,
          {{}, {TC_AUTOMATION_PATHS[2]}}, 1)
SpecBridge == InitBridge /\ [][Next]_vars

\* one call, every tool with every arguments dict
InitTools ==
    Setup(AllRequests, {Prints(SuccessDoc)},
          {{TC_AUTOMATION_PATHS[1], TC_AUTOMATION_PATHS[4]}}, 1)
SpecTools == InitTools /\ [][Next]_vars

\* one call, every tool with every document
InitRender == Setup(RenderRequests, RenderScripts, {{TC_AUTOMATION_PATHS[1]}}, 1)
SpecRender == InitRender /\ [][Next]_vars

TypeOK ==
    /\ pc \in [Calls -> {"absent", "idle", "delivered", "running", "done", "raised"}]
    /\ proc \in [Calls -> {"none", "running", "exited", "killed"}]
    /\ blocked \in Calls \cup {0}
    /\ \A c \in Calls : elapsed[c] \in 0..TIMEOUT

-----------------------------------------------------------------------------
(* Properties *)

Name(c) == request[c].name
Arguments(c) == request[c].arguments

\* call_tool has run for c, for a tool it knows
Handled(c) == pc[c] \in {"running", "done", "raised"} /\ Name(c) \in ToolNames

\* run_tc_automation has been entered for c
Invoked(c) ==
    bridge[c].kind # "none" \/ proc[c] # "none" \/ spawned[c] # NotSpawned

StartsWith(s, prefix) ==
    Len(s) >= Len(prefix) /\ SubSeq(s, 1, Len(prefix)) = prefix

AllBlank(s) == \A i \in 1..Len(s) : s[i].t \in {"ws", "ff"}

\* s is one JSON document with nothing but JSON whitespace around it
OneDocument(s) ==
    \E i \in 1..Len(s) :
        /\ s[i].t = "json"
        /\ \A j \in 1..Len(s) : j # i => s[j].t = "ws"

DocumentOf(s) == s[CHOOSE i \in 1..Len(s) : s[i].t = "json"].v

\* C1: run_tc_automation never raises: once call_tool has gone through it,
\* it has returned an envelope, and the envelope has success = false when no
\* candidate exists, when the process cannot be spawned, when it timed out,
\* and when its stdout is empty or is not JSON.
C1_NeverRaises ==
    \A c \in Calls :
        (Handled(c) /\ pc[c] # "running") =>
            /\ bridge[c].kind = "returned"
            /\ ( \/ fs = {}
                 \/ ~script[c].spawn
                 \/ proc[c] = "killed"
                 \/ (proc[c] = "exited" /\ ~OneDocument(out[c])) )
               => ("success" \in DOMAIN bridge[c].env /\ ~bridge[c].env.success)

\* C2: a call that lacks a property its tool requires is answered with a
\* failure text, and run_tc_automation is not entered for it.
C2_MissingRequiredRejected ==
    \A c \in Calls :
        (Handled(c) /\ ~(Required(Name(c)) \subseteq DOMAIN Arguments(c))) =>
            /\ ~Invoked(c)
            /\ StartsWith(text[c], FailureMarker)

\* C3: a process still running when 300 seconds have elapsed is killed and
\* the call returns exactly {success: false, errorMessage: "Command timed
\* out after 5 minutes"}, whatever was captured; a call waits no longer than
\* the timeout, and a process that ended did so before it.
C3_Timeout ==
    \A c \in Calls :
        /\ proc[c] = "running" => elapsed[c] <= TIMEOUT /\ pc[c] = "running"
        /\ proc[c] = "exited" => elapsed[c] < TIMEOUT
        /\ proc[c] = "killed" =>
              /\ elapsed[c] = TIMEOUT
              /\ pc[c] = "done"
              /\ bridge[c] = Returned([success |-> FALSE,
                                       errorMessage |-> TimeoutMessage])

C3_Witness ==
    \E c \in Calls :
        /\ proc[c] = "killed"
        /\ out[c] = <<Json(SuccessDoc)>>
        /\ Contains(text[c], TimeoutMessage)

FlagOrder(name) ==
    CASE name = "twincat_build" -> <<"clean", "tcVersion">>
      [] name = "twincat_get_info" -> << >>
      [] name = "twincat_clean" -> <<"tcVersion">>
      [] name \in {"twincat_set_target", "twincat_activate", "twincat_restart"} ->
             <<"amsNetId", "tcVersion">>
      [] name = "twincat_deploy" ->
             <<"amsNetId", "plcName", "tcVersion", "skipBuild", "dryRun">>

FlagOf(k) ==
    CASE k = "clean" -> "--clean"
      [] k = "tcVersion" -> "--tcversion"
      [] k = "amsNetId" -> "--amsnetid"
      [] k = "plcName" -> "--plc"
      [] k = "skipBuild" -> "--skip-build"
      [] k = "dryRun" -> "--dry-run"

DefaultOf(k) == k = "clean"

BareFlag(k, a) == IF Get(a, k, DefaultOf(k)) THEN <<S(FlagOf(k))>> ELSE << >>

PairIfNonEmpty(k, a) ==
    IF k \in DOMAIN a /\ Len(a[k]) > 0 THEN <<S(FlagOf(k)), a[k]>> ELSE << >>

\* the argv of the claim: every scalar is passed if and only if non-empty
ArgvAsClaimed(name, a) ==
    <<S("--solution"), a["solutionPath"]>>
    \o Flatten([i \in 1..Len(FlagOrder(name)) |->
          LET k == FlagOrder(name)[i]
          IN  IF k \in BoolKeys THEN BareFlag(k, a) ELSE PairIfNonEmpty(k, a)])

\* the same, but a required amsNetId is passed whatever its value
ArgvAsAmended(name, a) ==
    <<S("--solution"), a["solutionPath"]>>
    \o Flatten([i \in 1..Len(FlagOrder(name)) |->
          LET k == FlagOrder(name)[i]
          IN  IF k \in BoolKeys THEN BareFlag(k, a)
              ELSE IF k \in Required(name) THEN <<S(FlagOf(k)), a[k]>>
              ELSE PairIfNonEmpty(k, a)])

HasRequired(c) == Required(Name(c)) \subseteq DOMAIN Arguments(c)

\* C5 as stated: with the required properties present, argv is "--solution",
\* solutionPath, then in the tool's order a "--flag value" pair for each of
\* tcVersion, amsNetId, plcName that is present and non-empty and a bare flag
\* for each of clean, skipBuild, dryRun that is true after defaulting.
C5_ArgvAsClaimed ==
    \A c \in Calls :
        (Handled(c) /\ HasRequired(c)) =>
            argv[c] = ArgvAsClaimed(Name(c), Arguments(c))

\* C5 amended: as above, except that twincat_set_target and twincat_deploy,
\* which require amsNetId, pass "--amsnetid" and its value also when the
\* value is the empty string.
C5_Argv ==
    \A c \in Calls :
        (Handled(c) /\ HasRequired(c)) =>
            argv[c] = ArgvAsAmended(Name(c), Arguments(c))

C5_Witness ==
    \E c \in Calls :
        /\ Handled(c)
        /\ Name(c) = "twincat_deploy"
        /\ DOMAIN Arguments(c) = Properties("twincat_deploy")
        /\ Arguments(c)["amsNetId"] = << >>
        /\ Arguments(c)["plcName"] # << >>
        /\ Arguments(c)["tcVersion"] # << >>
        /\ Arguments(c)["dryRun"]
        /\ Len(argv[c]) = 9

CandidateAtoms == {Lit(TC_AUTOMATION_PATHS[i]) : i \in 1..Len(TC_AUTOMATION_PATHS)}
IsCandidate(a) == a \in CandidateAtoms

\* C6: the executable run is the existing candidate of lowest index; the
\* locator fails if and only if no candidate exists, and its message then
\* names the four candidates in their declared order.
C6_FirstExisting ==
    \A c \in Calls :
        Handled(c) =>
            /\ bridge[c].kind = "raised" <=> fs = {}
            /\ fs # {} =>
                 \E i \in 1..Len(TC_AUTOMATION_PATHS) :
                     /\ TC_AUTOMATION_PATHS[i] \in fs
                     /\ \A j \in 1..(i - 1) : TC_AUTOMATION_PATHS[j] \notin fs
                     /\ spawned[c].cmd[1] = S(TC_AUTOMATION_PATHS[i])
                     /\ spawned[c].cwd = Parent(TC_AUTOMATION_PATHS[i])
            /\ fs = {} =>
                 SelectSeq(bridge[c].exc, IsCandidate)
                     = [i \in 1..Len(TC_AUTOMATION_PATHS) |-> Lit(TC_AUTOMATION_PATHS[i])]

C6_Witness ==
    \E c \in Calls :
        /\ Handled(c)
        /\ fs = {TC_AUTOMATION_PATHS[2], TC_AUTOMATION_PATHS[4]}
        /\ spawned[c].cmd[1] = S(TC_AUTOMATION_PATHS[2])

\* C7: whenever the envelope's success is not true, the text starts with the
\* failure marker and contains the envelope's errorMessage, and its stderr,
\* when the envelope has them; the text starts with the success marker
\* exactly when success is true.
C7_FailureTextCarriesDetail ==
    \A c \in Calls :
        (Handled(c) /\ bridge[c].kind = "returned") =>
            LET envelope == bridge[c].env
            IN  /\ GetB(envelope, "success") <=> StartsWith(text[c], SuccessMarker)
                /\ ~GetB(envelope, "success") =>
                     /\ StartsWith(text[c], FailureMarker)
                     /\ "errorMessage" \in DOMAIN envelope =>
                            Contains(text[c], envelope["errorMessage"])
                     /\ "stderr" \in DOMAIN envelope =>
                            Contains(text[c], envelope["stderr"])

IsStepMark(a) == a \in {Lit("  "), Lit(" (dry run)")}

Deployed(c) ==
    /\ Name(c) = "twincat_deploy"
    /\ pc[c] = "done"
    /\ bridge[c].kind = "returned"

DryRunFlagPassed(c) ==
    (Lit("--dry-run") \in {spawned[c].cmd[i][1] : i \in 1..Len(spawned[c].cmd)})
        <=> Get(Arguments(c), "dryRun", FALSE)

\* C8 as stated: --dry-run is passed exactly when dryRun is true, and with
\* dryRun true every step of the envelope's step list appears in the text
\* with the dry-run note, whatever fields the step has.
C8_EveryStepAnnotated ==
    \A c \in Calls :
        Deployed(c) =>
            /\ DryRunFlagPassed(c)
            /\ Get(Arguments(c), "dryRun", FALSE) =>
                 SelectSeq(text[c], IsStepMark)
                     = Flatten([i \in 1..Len(Get(bridge[c].env, "steps", << >>)) |->
                                   <<Lit("  "), Lit(" (dry run)")>>])

\* C8 amended: --dry-run is passed exactly when dryRun is true; the text of
\* an envelope with success true has one line per step, with the dry-run
\* note exactly on the steps whose own dryRun field is true, and the text of
\* any other envelope has no step lines.
C8_StepsAnnotatedByField ==
    \A c \in Calls :
        Deployed(c) =>
            /\ DryRunFlagPassed(c)
            /\ SelectSeq(text[c], IsStepMark)
                 = IF GetB(bridge[c].env, "success")
                   THEN Flatten([i \in 1..Len(Get(bridge[c].env, "steps", << >>)) |->
                            IF GetB(bridge[c].env["steps"][i], "dryRun")
                            THEN <<Lit("  "), Lit(" (dry run)")>>
                            ELSE <<Lit("  ")>>])
                   ELSE << >>

C8_Witness ==
    \E c \in Calls :
        /\ Deployed(c)
        /\ Get(Arguments(c), "dryRun", FALSE)
        /\ GetB(bridge[c].env, "success")
        /\ Len(Get(bridge[c].env, "steps", << >>)) = 2
        /\ GetB(bridge[c].env["steps"][1], "dryRun")
        /\ ~GetB(bridge[c].env["steps"][2], "dryRun")
        /\ Contains(text[c], DryRunNote)

\* C9: a call that has been abandoned does not leave its subprocess running.
C9_AbandonedProcessTerminated ==
    \A c \in Calls : abandoned[c] => proc[c] # "running"

\* C10: a call delivered while another call's subprocess is running can be
\* handled at once: the running call does not hold the handler.
C10_SecondCallProceeds ==
    \A c1, c2 \in Calls :
        (c1 # c2 /\ proc[c1] = "running" /\ pc[c2] = "delivered")
            => ENABLED call_tool(c2)

====
